---- MODULE Spec2Model ----
(***************************************************************************)
(* Lint orchestration of lib/editor-linter.coffee: one EditorLinter per    *)
(* open editor, all sharing one Linter (activeEditor, lintOnFly, linters,  *)
(* messagesProject, views).  A lint(wasTriggeredOnChange) call fans out    *)
(* one promise chain per applicable linter; each chain settles on its own  *)
(* and Promise.all(...).then writes the lock of the trigger kind.          *)
(*                                                                         *)
(* A step of the model is one turn of the event loop: the event handler or *)
(* promise settlement that starts it, and the promise callbacks that run   *)
(* in the microtask checkpoint ending it.                                  *)
(*                                                                         *)
(* Further specifications over the same variables: SpecStore (the message  *)
(* store of lib/editor-linter.coffee), SpecLife (the life cycle of both    *)
(* EditorLinter variants), SpecSession (the EditorLinter of                *)
(* unnamed/part_000: messages, markers, gutter, subscriptions) and         *)
(* SpecPanel (lib/ui/bottom-panel.js).                                     *)
(***************************************************************************)
EXTENDS Integers, FiniteSets, Sequences, Bags, TLC

\* ---------------------------------------------------------------- bounds
\* Number of runs whose Promise.all has not yet resolved, over all editors.
MaxRuns == 2

\* Number of destroy() calls on one session.
MaxDestroys == 2

\* Length of the added and removed arrays of one BottomPanel.setMessages call.
MaxBatch == 2

\* Number of message elements of one message in the panel's messagesElement.
MaxElements == 2

\* ------------------------------------------------ the shared Linter object
\* Two open editors, each with its EditorLinter: e1 shows a lang:foo
\* document, e2 a lang:bar document.
Editors == {"e1", "e2"}
NoEditor == "none"

\* The registry @linter.linters: X lints on the fly everywhere and keeps its
\* results per editor, P lints lang:bar on save with project-wide results.
Linters == {"X", "P"}

grammarScopes(l) == IF l = "X" THEN {"*"} ELSE {"lang:bar"}

linterLintOnFly(l) == l = "X"

linterScope(l) == IF l = "P" THEN "project" ELSE "file"

\* @editor.scopeDescriptorForBufferPosition(@editor.getCursorBufferPosition()).scopes
cursorScopes(e) == IF e = "e1" THEN {"lang:foo"} ELSE {"lang:bar"}

\* ------------------------------------------------------------ JS values
\* A Map entry: absent, or present with a list of messages.
Absent == [present |-> FALSE, value |-> <<>>]
Entry(v) == [present |-> TRUE, value |-> v]
EmptyMap == [l \in Linters |-> Absent]

\* What linter.lint(editor) can hand back: a well-formed array of messages,
\* or something that is not one.
GoodResults == {<<>>, <<"d1">>}
Raw(shape, items) == [shape |-> shape, items |-> items]
RawValues == {Raw("array", r) : r \in GoodResults} \cup {Raw("malformed", <<>>)}

\* error.message of the Error a linter throws or rejects with (the handler
\* reads error.message and error.stack: failures are Error objects).
linterErrorMessage(l) == IF l = "X" THEN "X failed" ELSE "P failed"
ValidationMessage == "invalid results"
NoMessage == ""

\* How one invocation of linter.lint ends: it returns (or resolves to) a raw
\* value, or it throws or rejects with an Error.
Returned(raw) == [how |-> "returned", raw |-> raw]
Failed == [how |-> "failed", raw |-> Raw("malformed", <<>>)]
Outcomes == {Returned(raw) : raw \in RawValues} \cup {Failed}

\* A settled promise.
Fulfilled(v) == [state |-> "fulfilled", value |-> v, message |-> NoMessage]
Rejected(m) == [state |-> "rejected", value |-> <<>>, message |-> m]

\* ----------------------------------------------------------------- state
VARIABLES
  activeEditor,     \* @linter.activeEditor
  lintOnFly,        \* @linter.lintOnFly
  messagesProject,  \* @linter.messagesProject
  messages,         \* messages[e]: the _messages map of e's EditorLinter
  locked,           \* locked[e][key]: whether @[key] of e's EditorLinter is truthy
  runs,             \* the lint calls whose Promise.all has not resolved (a bag)
  lastOp,           \* the call or callback that produced this state
  life,             \* life[e]: subscriptions and emitter of e's EditorLinter
  session,          \* the EditorLinter of src/unnamed/part_000 (messages as a Set)
  panel             \* the BottomPanel of lib/ui/bottom-panel.js

vars == <<activeEditor, lintOnFly, messagesProject, messages, locked, runs, lastOp,
          life, session, panel>>

\* The objects a specification leaves alone.
lintVars == <<activeEditor, lintOnFly, messagesProject, messages, locked, runs, lastOp>>

\* Per linter of a run: "none" (not invoked), "pending" (its promise has not
\* settled) or "done" (its chain has run to its end).
Running == BagToSet(runs)

NoRun == [editor |-> NoEditor, onChange |-> FALSE,
          st |-> [l \in Linters |-> "none"], updates |-> 0, failures |-> 0, errors |-> 0]

\* What one chain did when it ran to its end: how the invocation ended, the
\* message handed to atom.notifications.addError (or none), whether the
\* entry under the linter held messages before the write, the entry a
\* 'did-update' subscriber found there, and whether views.render() was called.
NoEvent == [happened |-> FALSE, outcome |-> Failed, note |-> NoMessage,
            held |-> FALSE, seen |-> Absent, rendered |-> FALSE]
Event(outcome, note, prev, seen, rendered) ==
  [happened |-> TRUE, outcome |-> outcome, note |-> note, held |-> prev.value # <<>>,
   seen |-> seen, rendered |-> rendered]
NoEvents == [l \in Linters |-> NoEvent]

\* One turn of the event loop: the call or settlement, whether a lint call
\* got past its two early returns, the linters it invoked, the chains that
\* ran to their end, the run they belong to as they left it, whether its
\* Promise.all resolved, and the property the lock write then went to.
Op(op, e, k, accepted, invoked, events, run, released, key) ==
  [op |-> op, editor |-> e, onChange |-> k, accepted |-> accepted,
   invoked |-> invoked, events |-> events, run |-> run, released |-> released,
   key |-> key]

\* ----------------------------------------------------------------- _lock
\* key = wasTriggeredOnChange ? '_inProgressFly' : '_inProgress' is the
\* existential operator applied to an implicit object literal: key is
\* wasTriggeredOnChange itself whenever that is not null, so the property
\* read or written is the one named "true" or "false"; @_inProgress and
\* @_inProgressFly are never touched again.
LockKeyShared(wasTriggeredOnChange) == "true"
LockKey(wasTriggeredOnChange) == IF wasTriggeredOnChange THEN "true" ELSE "false"

LockKeys == {"true", "false"}

\* @[key], as the caller tests it
LockGet(e, wasTriggeredOnChange) == locked[e][LockKey(wasTriggeredOnChange)]

\* @[key] = value
LockSet(e, wasTriggeredOnChange, value) ==
  [locked EXCEPT ![e][LockKey(wasTriggeredOnChange)] = value]

\* ------------------------------------------------------------ the filter
\* scopes.push '*'
LintScopesNoWildcard(e) == cursorScopes(e)
LintScopes(e) == cursorScopes(e) \cup {"*"}

\* if @linter.lintOnFly then return if wasTriggeredOnChange isnt linter.lintOnFly
ModeSkipsAlways(wasTriggeredOnChange, l) ==
  wasTriggeredOnChange # linterLintOnFly(l)
ModeSkips(wasTriggeredOnChange, l) ==
  lintOnFly /\ wasTriggeredOnChange # linterLintOnFly(l)

\* scopes.some (entry) -> entry in linter.grammarScopes
ScopeMatches(scopes, l) == \E entry \in scopes : entry \in grammarScopes(l)

\* The linters _lint pushes a promise for, i.e. invokes.
Invoked(e, wasTriggeredOnChange) ==
  {l \in Linters : /\ ~ModeSkips(wasTriggeredOnChange, l)
                   /\ ScopeMatches(LintScopes(e), l)}

\* ---------------------------------------------------- one promise chain
\* Helpers.validateResults: a well-formed array passes through, anything
\* else is a validation error.
validateResults(raw) ==
  IF raw.shape = "array" THEN Fulfilled(raw.items) ELSE Rejected(ValidationMessage)

\* new Promise((resolve) => resolve(linter.lint(@editor))): a throw inside
\* the executor and a rejected promise both leave the chain rejected.
Invocation(l, outcome) ==
  IF outcome.how = "failed" THEN Rejected(linterErrorMessage(l))
  ELSE Fulfilled(outcome.raw)

\* .then(Helpers.validateResults)
Validated(p) == IF p.state = "fulfilled" THEN validateResults(p.value) ELSE p

\* .catch((error) -> atom.notifications.addError error.message, ...; [])
CatchSilent(p) == NoMessage
CatchNotifies(p) == IF p.state = "rejected" THEN p.message ELSE NoMessage

CatchKeepsOld(old, p) == IF p.state = "rejected" THEN old ELSE p.value
CatchResults(old, p) == IF p.state = "rejected" THEN <<>> ELSE p.value

\* if linter.scope is 'project' then @linter.messagesProject.set linter, results
\* else @_messages.set linter, results
ToProjectNever(l) == FALSE
ToProject(l) == linterScope(l) = "project"

\* The entry a write for linter l of editor e lands in.
Target(proj, sess, e, l) == IF linterScope(l) = "project" THEN proj[l] ELSE sess[e][l]

\* The list the last .then of l's chain receives.
Results(e, l, outcome) ==
  CatchResults(Target(messagesProject, messages, e, l).value,
               Validated(Invocation(l, outcome)))

\* The two maps after the chains of the linters in S, invoked for editor e
\* and ending as outs says, have written.
SetProject(e, S, outs) ==
  [l \in Linters |-> IF l \in S /\ ToProject(l) THEN Entry(Results(e, l, outs[l]))
                     ELSE messagesProject[l]]

SetSession(e, S, outs) ==
  [messages EXCEPT ![e] =
     [l \in Linters |-> IF l \in S /\ ~ToProject(l) THEN Entry(Results(e, l, outs[l]))
                        ELSE @[l]]]

\* @_emitter.emit 'did-update' comes after the write: what a subscriber
\* finds under the linter when it is called.
Observed(proj, sess, e, l) == Target(proj, sess, e, l)

\* @linter.views.render() if @editor is @linter.activeEditor
RendersAlways(e) == TRUE
Renders(e) == e = activeEditor

\* The invocations that count as failing: a throw or rejection, or a
\* result that is not a well-formed array.
Failing(outcome) == outcome.how = "failed" \/ outcome.raw.shape # "array"

\* The run after the chains of the linters in S have run to their end.
AfterChains(r, S, outs) ==
  [r EXCEPT !.st = [l \in Linters |-> IF l \in S THEN "done" ELSE @[l]],
            !.updates = @ + Cardinality(S),
            !.failures = @ + Cardinality({l \in S : Failing(outs[l])}),
            !.errors = @ + Cardinality({l \in S :
                             CatchNotifies(Validated(Invocation(l, outs[l]))) # NoMessage})]

Events(e, S, outs, proj, sess) ==
  [l \in Linters |->
     IF l \in S
     THEN Event(outs[l], CatchNotifies(Validated(Invocation(l, outs[l]))),
                Target(messagesProject, messages, e, l),
                Observed(proj, sess, e, l), Renders(e))
     ELSE NoEvent]

\* Promise.all(...) resolves once no promise of the run is pending.
AllSettledEarly(r) == \E l \in Linters : r.st[l] = "done"
AllSettled(r) == \A l \in Linters : r.st[l] # "pending"

\* .then => @_lock(wasTriggeredOnChange, false)
ReleaseValueTrue == TRUE
ReleaseValue == FALSE

\* ----------------------------------------------------------------- lint
StartRun(e, wasTriggeredOnChange, invoked) ==
  [editor |-> e, onChange |-> wasTriggeredOnChange,
   st |-> [l \in Linters |-> IF l \in invoked THEN "pending" ELSE "none"],
   updates |-> 0, failures |-> 0, errors |-> 0]

\* return unless @editor is @linter.activeEditor; return if @_lock(...)
BlockedByLockOnly(e, wasTriggeredOnChange) == LockGet(e, wasTriggeredOnChange)
Blocked(e, wasTriggeredOnChange) ==
  e # activeEditor \/ LockGet(e, wasTriggeredOnChange)

LintNoop(e, wasTriggeredOnChange) ==
  /\ lastOp' = Op("lint", e, wasTriggeredOnChange, FALSE, {}, NoEvents, NoRun, FALSE, "")
  /\ UNCHANGED <<activeEditor, lintOnFly, messagesProject, messages, locked, runs>>

\* The call invokes every applicable linter at once.  A linter that throws
\* does so inside the call, and the handlers of its rejected chain run in the
\* microtask checkpoint that ends the call; the other promises are left
\* pending.  Nothing in the call writes the lock.
LintCall(e, wasTriggeredOnChange) ==
  IF Blocked(e, wasTriggeredOnChange)
  THEN LintNoop(e, wasTriggeredOnChange)
  ELSE /\ BagCardinality(runs) < MaxRuns
       /\ \E threw \in SUBSET Invoked(e, wasTriggeredOnChange) :
            LET outs == [l \in threw |-> Failed]
                r == AfterChains(StartRun(e, wasTriggeredOnChange,
                                          Invoked(e, wasTriggeredOnChange)), threw, outs)
            IN /\ messagesProject' = SetProject(e, threw, outs)
               /\ messages' = SetSession(e, threw, outs)
               /\ runs' = IF AllSettled(r) THEN runs ELSE runs (+) SetToBag({r})
               /\ locked' = IF AllSettled(r)
                            THEN LockSet(e, wasTriggeredOnChange, ReleaseValue)
                            ELSE locked
               /\ lastOp' = Op("lint", e, wasTriggeredOnChange, TRUE,
                               Invoked(e, wasTriggeredOnChange),
                               Events(e, threw, outs, messagesProject', messages'),
                               r, AllSettled(r),
                               IF AllSettled(r) THEN LockKey(wasTriggeredOnChange) ELSE "")
       /\ UNCHANGED <<activeEditor, lintOnFly>>

\* A direct call of the public method.
Lint(e, wasTriggeredOnChange) == LintCall(e, wasTriggeredOnChange)

\* @editor.onDidSave => @lint(false)
DidSave(e) == LintCall(e, FALSE)

\* @editor.onDidStopChanging => @lint(true) if @linter.lintOnFly
LintsOnChangeAlways == TRUE
LintsOnChange == lintOnFly

DidStopChanging(e) == LintsOnChange /\ LintCall(e, TRUE)

\* The promise linter l returned to run r settles and its chain runs to its
\* end: validate, catch, write, emit 'did-update', render when the editor is
\* the active one.  When it was the last pending promise of the run,
\* Promise.all resolves in the same checkpoint and the lock is written.
Settle(r, l, outcome) ==
  /\ r \in Running
  /\ r.st[l] = "pending"
  /\ LET outs == [x \in {l} |-> outcome]
         after == AfterChains(r, {l}, outs)
     IN /\ messagesProject' = SetProject(r.editor, {l}, outs)
        /\ messages' = SetSession(r.editor, {l}, outs)
        /\ runs' = IF AllSettled(after) THEN runs (-) SetToBag({r})
                   ELSE (runs (-) SetToBag({r})) (+) SetToBag({after})
        /\ locked' = IF AllSettled(after)
                     THEN LockSet(r.editor, r.onChange, ReleaseValue)
                     ELSE locked
        /\ lastOp' = Op("settle", r.editor, r.onChange, FALSE, {},
                        Events(r.editor, {l}, outs, messagesProject', messages'),
                        after, AllSettled(after),
                        IF AllSettled(after) THEN LockKey(r.onChange) ELSE "")
  /\ UNCHANGED <<activeEditor, lintOnFly>>

\* ------------------------------------------------------- the environment
EnvOp == Op("env", NoEditor, FALSE, FALSE, {}, NoEvents, NoRun, FALSE, "")

\* The workspace makes another editor the active one.
SetActiveEditor(e) ==
  /\ e # activeEditor
  /\ activeEditor' = e
  /\ lastOp' = EnvOp
  /\ UNCHANGED <<lintOnFly, messagesProject, messages, locked, runs>>

\* The user flips the linter.lintOnFly setting.
SetLintOnFly ==
  /\ lintOnFly' = ~lintOnFly
  /\ lastOp' = EnvOp
  /\ UNCHANGED <<activeEditor, messagesProject, messages, locked, runs>>

\* ------------------------------------------- objects not yet constructed
\* What the editor's last event or the last destroy() call did: its kind,
\* the session it concerns, and whether a callback of the session ran.
DocEvent(kind, e, handled) == [kind |-> kind, editor |-> e, handled |-> handled]

\* Every EditorLinter of lib/editor-linter.coffee as its constructor leaves
\* it: the subscriptions of @_subscriptions live, and nothing heard yet by
\* the onDidDestroy subscriber (it notes, at each 'did-destroy', whether the
\* subscriptions were still live).
NewLife == [sub |-> [e \in Editors |-> TRUE], heard |-> [e \in Editors |-> <<>>],
            event |-> DocEvent("none", NoEditor, FALSE)]

\* The messages handed to addMessage and removeMessage.
Msgs == {"m1", "m2"}

\* The subscriptions the constructor of src/unnamed/part_000 adds to
\* this.subscriptions, and the one its setImmediate callback adds.
Constructed == {"underlineIssues", "didDestroy", "didSave", "cursor", "gutterEnabled",
                "gutterPosition", "messageAdd", "messageRemove"}
Deferred == "stopChanging"

\* What the last call or event on the session was, and whether a callback of
\* the session ran for it.
SessionEvent(kind, arg, handled) == [kind |-> kind, arg |-> arg, handled |-> handled]

\* atom.config: linter.underlineIssues and linter.gutterEnabled default to true.
DefaultConfig == [underlineIssues |-> TRUE, gutterEnabled |-> TRUE]

\* No session constructed yet.  subs: the subscriptions that are live, held:
\* those this.subscriptions holds; liveMarkers: the markers made by
\* markBufferRange and not destroyed, by message; calls: destroy() calls;
\* lastNote: the last 'did-message-add' or 'did-message-remove' a subscriber
\* got per message; out: the notifications subscribers got in this step.
NoSession ==
  [made |-> FALSE, alive |-> TRUE, deferred |-> FALSE, subs |-> {}, held |-> {},
   compositeDisposed |-> FALSE, emitterDisposed |-> FALSE, config |-> DefaultConfig,
   underlineIssues |-> FALSE, gutter |-> FALSE, messages |-> {}, editorMarkers |-> {},
   gutterMarkers |-> {}, liveMarkers |-> {}, calls |-> 0,
   lastNote |-> [m \in Msgs |-> "none"], out |-> <<>>,
   event |-> SessionEvent("none", "", FALSE)]
\* The messages handed to the panel: p1 is in the current file but not on
\* the current line, p2 is in another file.
PanelMsgs == {"p1", "p2"}
currentFile(m) == m = "p1"
currentLine(m) == FALSE

\* The call that produced the panel's state: its arguments and, for
\* setMessages, the message map and the elements attached before it, and the
\* same when it was done with `removed` and had not started on `added`.
PanelOp(op, added, removed, scope, before, mid) ==
  [op |-> op, added |-> added, removed |-> removed, scope |-> scope,
   before |-> [messages |-> before.messages, attached |-> before.attached],
   mid |-> [messages |-> mid.messages, attached |-> mid.attached]]

EmptyPanel == [messages |-> [m \in PanelMsgs |-> "absent"],
               attached |-> [m \in PanelMsgs |-> 0]]

\* new BottomPanel(scope).  messages[m]: "absent", or the status of the
\* element the map holds for m ("shown" or "hidden"); attached[m]: the
\* elements made for m that are children of messagesElement.
NewPanel(scope, showErrorPanel, paneIsEditor) ==
  [made |-> TRUE, disposed |-> FALSE, scope |-> scope,
   messages |-> [m \in PanelMsgs |-> "absent"],
   attached |-> [m \in PanelMsgs |-> 0],
   visibleMessages |-> 0, configVisibility |-> showErrorPanel,
   paneVisibility |-> paneIsEditor, visibility |-> FALSE,
   last |-> PanelOp("new", <<>>, <<>>, scope, EmptyPanel, EmptyPanel)]

NoPanel == [NewPanel("Project", TRUE, TRUE) EXCEPT !.made = FALSE]

\* ---------------------------------------------------------- specification
Init ==
  /\ activeEditor = "e1"
  /\ lintOnFly = TRUE
  /\ messagesProject = EmptyMap
  /\ messages = [e \in Editors |-> EmptyMap]
  /\ locked = [e \in Editors |-> [key \in LockKeys |-> FALSE]]
  /\ runs = EmptyBag
  /\ lastOp = EnvOp
  /\ life = NewLife
  /\ session = NoSession
  /\ panel = NoPanel

Next ==
  \/ \E e \in Editors, k \in BOOLEAN : Lint(e, k) /\ UNCHANGED <<life, session, panel>>
  \/ \E e \in Editors : DidSave(e) /\ UNCHANGED <<life, session, panel>>
  \/ \E e \in Editors : DidStopChanging(e) /\ UNCHANGED <<life, session, panel>>
  \/ \E r \in Running, l \in Linters, outcome \in Outcomes :
       Settle(r, l, outcome) /\ UNCHANGED <<life, session, panel>>
  \/ \E e \in Editors : SetActiveEditor(e) /\ UNCHANGED <<life, session, panel>>
  \/ SetLintOnFly /\ UNCHANGED <<life, session, panel>>

Spec == Init /\ [][Next]_vars

\* ------------------------------------------------------------ properties
\* The number of runs of editor e and trigger kind k that still have an
\* unsettled invocation.
InFlight(e, k) ==
  BagCardinality([r \in {x \in Running : x.editor = e /\ x.onChange = k} |-> runs[r]])

\* The entry of linter l that editor e's writes go to, as a reader finds it.
EntryOf(e, l) == IF linterScope(l) = "project" THEN messagesProject[l] ELSE messages[e][l]

\* The declared run mode and scopes of l, read off the registry.
WantsMode(l, k) == lintOnFly => (linterLintOnFly(l) = k)
WantsScope(e, l) == grammarScopes(l) \cap (cursorScopes(e) \cup {"*"}) # {}
Applicable(e, k) == {l \in Linters : WantsMode(l, k) /\ WantsScope(e, l)}

InvocationFailed(outcome) == outcome.how = "failed" \/ outcome.raw.shape # "array"
Delivered(outcome) == IF InvocationFailed(outcome) THEN <<>> ELSE outcome.raw.items

Happened == {l \in Linters : lastOp.events[l].happened}
LintAccepted == lastOp.op = "lint" /\ lastOp.accepted

\* C1: per editor and trigger kind, at most one run is in flight at any time.
C1_MutualExclusion ==
  \A e \in Editors, k \in BOOLEAN : InFlight(e, k) <= 1

\* C2: a lint(k) call made while a run of kind k is in flight is dropped: it
\* starts nothing and changes nothing; and no step other than a lint call
\* ever starts a run.
C2_BlockedTriggerDropped ==
  [][ /\ (lastOp'.op = "lint" /\ InFlight(lastOp'.editor, lastOp'.onChange) >= 1)
           => /\ ~lastOp'.accepted
              /\ UNCHANGED <<messagesProject, messages, locked, runs>>
      /\ lastOp'.op # "lint"
           => \A e \in Editors, k \in BOOLEAN : InFlight(e, k)' <= InFlight(e, k)
    ]_vars

\* C3: a lint call of one kind on the active editor is accepted, and invokes
\* the applicable linters, while a run of the other kind is in flight; and
\* the lock written when a run of one kind ends is not the lock a call of
\* the other kind reads.
C3_LocksIndependent ==
  /\ ( /\ lastOp.op = "lint"
       /\ lastOp.editor = activeEditor
       /\ InFlight(lastOp.editor, ~lastOp.onChange) >= 1 )
       => /\ lastOp.accepted
          /\ lastOp.invoked = Applicable(lastOp.editor, lastOp.onChange)
  /\ lastOp.released => lastOp.key # LockKey(~lastOp.onChange)

C3_Witness ==
  /\ LintAccepted
  /\ ~lastOp.onChange
  /\ lastOp.invoked # {}
  /\ InFlight(lastOp.editor, TRUE) >= 1

\* C4: a linter that throws inside the lint call, or whose promise rejects,
\* has its chain run to its end with one error notification carrying its
\* message; when a run with a failure has ended its lock reads free, and a
\* lint call of the same kind that comes next on the active editor is
\* accepted and invokes the applicable linters.
C4_Handled ==
  /\ \A l \in Happened :
       lastOp.events[l].outcome.how = "failed"
         => /\ lastOp.events[l].note = linterErrorMessage(l)
            /\ lastOp.run.st[l] = "done"
  /\ LintAccepted => lastOp.run.errors = Cardinality(Happened)
  /\ (lastOp.released /\ lastOp.run.failures > 0)
       => ~LockGet(lastOp.editor, lastOp.onChange)

\* C4: the above holds after every step, and recovery: the lint call of the
\* same kind that follows the end of a run with a failure is accepted.
C4_Recovery ==
  [][ /\ C4_Handled'
      /\ ( /\ lastOp.released
           /\ lastOp.run.failures > 0
           /\ lastOp'.op = "lint"
           /\ lastOp'.editor = lastOp.editor
           /\ lastOp'.onChange = lastOp.onChange
           /\ lastOp'.editor = activeEditor )
           => /\ lastOp'.accepted
              /\ lastOp'.invoked = Applicable(lastOp.editor, lastOp.onChange)
    ]_vars

\* The linter threw inside the call, nothing else was pending, the run ended
\* and the editor is still the active one.
C4_Witness ==
  /\ LintAccepted
  /\ lastOp.released
  /\ lastOp.editor = activeEditor
  /\ \E l \in Happened : lastOp.events[l].note = linterErrorMessage(l)
  /\ ~LockGet(lastOp.editor, lastOp.onChange)

\* C5: in every run the number of error notifications equals the number of
\* failing invocations, a chain notifies exactly when its invocation failed,
\* and the result of every invocation that did not fail is written, whatever
\* happened to the other linters of the run.
C5_FailureIsolation ==
  /\ \A r \in Running \cup {lastOp.run} : r.errors = r.failures
  /\ \A l \in Happened :
       LET ev == lastOp.events[l]
       IN /\ (ev.note # NoMessage) <=> InvocationFailed(ev.outcome)
          /\ ~InvocationFailed(ev.outcome)
               => EntryOf(lastOp.editor, l) = Entry(ev.outcome.raw.items)

C5_Witness ==
  /\ lastOp.run.failures >= 1
  /\ lastOp.run.errors >= 1
  /\ \E l \in Happened : /\ ~InvocationFailed(lastOp.events[l].outcome)
                         /\ EntryOf(lastOp.editor, l) = Entry(<<"d1">>)

\* C6: after a chain whose invocation threw, rejected or failed validation,
\* the linter's entry in its target map is the empty list.
C6_FailureIsEmpty ==
  \A l \in Happened :
    InvocationFailed(lastOp.events[l].outcome)
      => EntryOf(lastOp.editor, l) = Entry(<<>>)

C6_Witness ==
  \E l \in Happened : /\ lastOp.events[l].outcome.raw.shape = "malformed"
                      /\ lastOp.events[l].held
                      /\ EntryOf(lastOp.editor, l) = Entry(<<>>)

\* C7 as stated: a lint call invokes only linters whose run mode is the
\* trigger kind.
C7_ModeAlwaysFilters ==
  LintAccepted => \A l \in lastOp.invoked : linterLintOnFly(l) = lastOp.onChange

\* C7: with linter.lintOnFly on, a lint call invokes only linters whose run
\* mode is the trigger kind; with it off, the run mode is not looked at and
\* every linter with a matching scope is invoked by either kind of trigger.
C7_RunModeFilter ==
  LintAccepted =>
    /\ lintOnFly => \A l \in lastOp.invoked : linterLintOnFly(l) = lastOp.onChange
    /\ ~lintOnFly => \A l \in Linters : WantsScope(lastOp.editor, l) => l \in lastOp.invoked

C7_Witness ==
  /\ LintAccepted
  /\ ~lintOnFly
  /\ \E l \in lastOp.invoked : linterLintOnFly(l) # lastOp.onChange

\* C8: among the linters whose run mode passes, a lint call invokes exactly
\* those with a declared scope among the cursor's scopes or '*'; a chain
\* runs only for a linter its run invoked, and a step changes no entry of a
\* linter whose chain did not run in it.
C8_Invokes ==
  /\ LintAccepted
       => lastOp.invoked = {l \in Linters : /\ WantsMode(l, lastOp.onChange)
                                            /\ WantsScope(lastOp.editor, l)}
  /\ lastOp.op = "lint" => Happened \subseteq lastOp.invoked
  /\ \A l \in Happened : lastOp.run.st[l] = "done"

\* C8: the scope filter holds after every step, and a step leaves the
\* entries of the linters whose chain did not run in it as they were.
C8_ScopeFilter ==
  [][ /\ C8_Invokes'
      /\ \A l \in Linters :
           ~lastOp'.events[l].happened
             => /\ messagesProject'[l] = messagesProject[l]
                /\ \A e \in Editors : messages'[e][l] = messages[e][l]
    ]_vars

C8_Witness ==
  /\ LintAccepted
  /\ "X" \in lastOp.invoked
  /\ "P" \notin lastOp.invoked
  /\ ~lastOp.onChange
  /\ messagesProject["P"] = Entry(<<"d1">>)

\* C9: a chain of a file-scoped linter writes the linter's entry in the map
\* of the editor that invoked it and nothing else; a chain of a
\* project-scoped linter writes the linter's entry in the one project map
\* and nothing else; no step of one editor changes another editor's map.
C9_Routing ==
  [][ \A l \in Linters :
        lastOp'.events[l].happened =>
          LET e == lastOp'.editor
              v == Entry(Delivered(lastOp'.events[l].outcome))
          IN /\ \A d \in Editors \ {e} : messages'[d] = messages[d]
             /\ IF linterScope(l) = "project"
                THEN /\ messagesProject'[l] = v
                     /\ messages'[e][l] = messages[e][l]
                ELSE /\ messages'[e][l] = v
                     /\ messagesProject'[l] = messagesProject[l]
    ]_vars

C9_Witness ==
  /\ lastOp.op = "settle"
  /\ lastOp.editor = "e2"
  /\ lastOp.events["P"].happened
  /\ messagesProject["P"] = Entry(<<"d1">>)
  /\ messages["e2"]["P"] = Absent
  /\ messages["e1"]["X"] = Entry(<<"d1">>)
  /\ messages["e2"]["X"] = Absent

\* C10: every chain that runs to its end emits 'did-update' once, after its
\* write, whether or not other promises of the run are pending, so a run
\* that has ended emitted one per invoked linter; views.render() is called
\* exactly when the editor is the active one.
C10_PerAnalyzerDelivery ==
  /\ \A r \in Running \cup {lastOp.run} :
       r.updates = Cardinality({l \in Linters : r.st[l] = "done"})
  /\ lastOp.released
       => lastOp.run.updates = Cardinality({l \in Linters : lastOp.run.st[l] # "none"})
  /\ \A l \in Happened :
       /\ lastOp.events[l].seen = EntryOf(lastOp.editor, l)
       /\ lastOp.events[l].rendered <=> (lastOp.editor = activeEditor)

C10_Witness ==
  /\ lastOp.op = "settle"
  /\ ~lastOp.released
  /\ lastOp.run.updates = 1
  /\ \E l \in Linters : lastOp.run.st[l] = "pending"
  /\ \E l \in Happened : ~lastOp.events[l].rendered

\* C16: the lock write of a run happens only in the step in which the last
\* of its invocations settles: when a run releases, none of its promises is
\* pending, every linter it invoked has had its result written and its
\* 'did-update' emitted, and the property written is the one of the run's
\* trigger kind; a run that has not released still has a pending promise.
C16_ReleaseAfterAll ==
  /\ lastOp.released
       => /\ \A l \in Linters : lastOp.run.st[l] # "pending"
          /\ lastOp.run.updates = Cardinality({l \in Linters : lastOp.run.st[l] # "none"})
          /\ \A l \in Linters : lastOp.run.st[l] = "done" => EntryOf(lastOp.editor, l).present
          /\ lastOp.key = LockKey(lastOp.onChange)
          /\ ~LockGet(lastOp.editor, lastOp.onChange)
  /\ \A r \in Running : \E l \in Linters : r.st[l] = "pending"
  /\ (lastOp.op = "settle" /\ ~lastOp.released) => lastOp.run \in Running

\* A run of two linters releases when X settles after P has.
C16_Witness ==
  /\ lastOp.op = "settle"
  /\ lastOp.released
  /\ lastOp.events["X"].happened
  /\ ~lastOp.events["P"].happened
  /\ lastOp.run.st["P"] = "done"

\* The same run releases when P settles after X has.
C16_WitnessOtherOrder ==
  /\ lastOp.op = "settle"
  /\ lastOp.released
  /\ lastOp.events["P"].happened
  /\ ~lastOp.events["X"].happened
  /\ lastOp.run.st["X"] = "done"

\* C19: a lint(k) call, direct or from a save, on a session whose editor is
\* not the active editor does nothing: it invokes no linter, no chain runs,
\* no lock is written, and neither a session map nor the project map nor
\* the runs in flight change.
C19_NonActiveNoop ==
  [][ (lastOp'.op = "lint" /\ lastOp'.editor # activeEditor)
        => /\ ~lastOp'.accepted
           /\ lastOp'.invoked = {}
           /\ \A l \in Linters : ~lastOp'.events[l].happened
           /\ ~lastOp'.released
           /\ UNCHANGED <<activeEditor, lintOnFly, messagesProject, messages, locked, runs>>
    ]_vars

\* A save of the editor that is no longer the active one, while a run it
\* started is in flight and its map holds messages.
C19_Witness ==
  /\ lastOp.op = "lint"
  /\ lastOp.editor # activeEditor
  /\ ~lastOp.onChange
  /\ ~lastOp.accepted
  /\ InFlight(lastOp.editor, FALSE) >= 1
  /\ messages[lastOp.editor]["X"] = Entry(<<"d1">>)

\* ==================================================== the message store
\* getMessages, deleteMessages and setMessages of lib/editor-linter.coffee,
\* called by the views and by the Linter on the sessions' _messages maps.
StoreLists == {<<>>, <<"d1">>, <<"d2">>, <<"d1", "d2">>}

\* The call that produced this state: its receiver and arguments, the entry
\* found under the linter before it, and what it returned.
StoreOp(op, e, l, list, prev, returned) ==
  [op |-> op, editor |-> e, linter |-> l, list |-> list, prev |-> prev,
   returned |-> returned]

\* Map.set(linter, messages): the entry under the key afterwards
MapSetMerges(old, list) == Entry(old.value \o list)
MapSet(old, list) == Entry(list)

\* Map.delete(linter)
MapDelete(old) == Absent

\* getMessages: -> @_messages
GetMessages(e) ==
  /\ lastOp' = StoreOp("getMessages", e, "", <<>>, Absent, messages[e])
  /\ UNCHANGED <<activeEditor, lintOnFly, messagesProject, messages, locked, runs>>

\* deleteMessages: (linter) -> @_messages.delete(linter)
DeleteMessages(e, l) ==
  /\ messages' = [messages EXCEPT ![e][l] = MapDelete(@)]
  /\ lastOp' = StoreOp("deleteMessages", e, l, <<>>, messages[e][l], messages'[e])
  /\ UNCHANGED <<activeEditor, lintOnFly, messagesProject, locked, runs>>

\* setMessages: (linter, messages) -> @_messages.set(linter, messages)
SetMessages(e, l, list) ==
  /\ messages' = [messages EXCEPT ![e][l] = MapSet(@, list)]
  /\ lastOp' = StoreOp("setMessages", e, l, list, messages[e][l], messages'[e])
  /\ UNCHANGED <<activeEditor, lintOnFly, messagesProject, locked, runs>>

StoreInit ==
  /\ activeEditor = "e1"
  /\ lintOnFly = TRUE
  /\ messagesProject = EmptyMap
  /\ messages = [e \in Editors |-> EmptyMap]
  /\ locked = [e \in Editors |-> [key \in LockKeys |-> FALSE]]
  /\ runs = EmptyBag
  /\ lastOp = StoreOp("new", NoEditor, "", <<>>, Absent, EmptyMap)
  /\ life = NewLife
  /\ session = NoSession
  /\ panel = NoPanel

StoreNext ==
  \/ \E e \in Editors : GetMessages(e) /\ UNCHANGED <<life, session, panel>>
  \/ \E e \in Editors, l \in Linters :
       DeleteMessages(e, l) /\ UNCHANGED <<life, session, panel>>
  \/ \E e \in Editors, l \in Linters, list \in StoreLists :
       SetMessages(e, l, list) /\ UNCHANGED <<life, session, panel>>

SpecStore == StoreInit /\ [][StoreNext]_vars

\* C11: after setMessages(a, d) on a session getMessages() maps a to exactly
\* d, whatever a's list was before, and after deleteMessages(a) it has no
\* entry for a; either call leaves the entry of every other linter of the
\* session, every other session's map and the project map as they were, and
\* getMessages changes nothing.
C11_StoreFrame ==
  [][ LET e == lastOp'.editor
          a == lastOp'.linter
      IN /\ lastOp'.op = "setMessages"
              => /\ lastOp'.returned[a] = Entry(lastOp'.list)
                 /\ messages'[e][a] = Entry(lastOp'.list)
         /\ lastOp'.op = "deleteMessages"
              => /\ lastOp'.returned[a] = Absent
                 /\ messages'[e][a] = Absent
         /\ lastOp'.op = "getMessages"
              => /\ lastOp'.returned = messages[e]
                 /\ messages' = messages
         /\ \A d \in Editors, l \in Linters :
              (d # e \/ l # a) => messages'[d][l] = messages[d][l]
         /\ messagesProject' = messagesProject
    ]_vars

\* A list replaces a different one while the session's other linter and the
\* other session hold messages.
C11_Witness ==
  /\ lastOp.op = "setMessages"
  /\ lastOp.prev = Entry(<<"d1">>)
  /\ lastOp.list = <<"d2">>
  /\ \E l \in Linters \ {lastOp.linter} : messages[lastOp.editor][l] = Entry(<<"d1", "d2">>)
  /\ \E d \in Editors \ {lastOp.editor} : messages[d][lastOp.linter] = Entry(<<"d1">>)

\* ================================== subscriptions and destroy (coffee)
\* The sessions of lib/editor-linter.coffee from construction to destroy():
\* the editor's events reach a session through the subscriptions its
\* constructor made.  e1 stays the active editor.

\* destroy: -> @_emitter.emit 'did-destroy'; @_subscriptions.dispose()
\* The emitter is not disposed: every call reaches the subscriber.
Destroy(e) ==
  /\ Len(life.heard[e]) < MaxDestroys
  /\ life' = [life EXCEPT !.heard[e] = Append(@, life.sub[e]),
                          !.sub[e] = FALSE,
                          !.event = DocEvent("destroy", e, TRUE)]
  /\ lastOp' = EnvOp
  /\ UNCHANGED <<activeEditor, lintOnFly, messagesProject, messages, locked, runs>>

\* An event of the editor that no callback of the session answers with a
\* lint call.
NoLintCall(kind, e) ==
  /\ life' = [life EXCEPT !.event = DocEvent(kind, e, life.sub[e])]
  /\ lastOp' = EnvOp
  /\ UNCHANGED <<activeEditor, lintOnFly, messagesProject, messages, locked, runs>>

\* The editor emits did-save: @editor.onDidSave => @lint(false)
EditorSaved(e) ==
  IF life.sub[e]
  THEN DidSave(e) /\ life' = [life EXCEPT !.event = DocEvent("save", e, TRUE)]
  ELSE NoLintCall("save", e)

\* The editor emits did-stop-changing:
\* @editor.onDidStopChanging => @lint(true) if @linter.lintOnFly
EditorStoppedChanging(e) ==
  IF life.sub[e] /\ LintsOnChange
  THEN DidStopChanging(e) /\ life' = [life EXCEPT !.event = DocEvent("change", e, TRUE)]
  ELSE NoLintCall("change", e)

\* ======================================= the session of unnamed/part_000
\* The EditorLinter of src/unnamed/part_000: messages in a Set, markers in
\* two side tables, notifications through this.emitter.  Operators take a
\* session record and give the record after the call.

Note(name, arg) == [name |-> name, arg |-> arg]

\* this.emitter.emit(name, arg) as the subscribers outside the session get
\* it: a disposed Emitter has no handlers and calls nobody.
Emit(s, name, arg) ==
  IF s.emitterDisposed THEN s ELSE [s EXCEPT !.out = Append(@, Note(name, arg))]

\* Whether a callback the session registered on its own emitter runs.
Hears(s, sub) == ~s.emitterDisposed /\ sub \in s.subs

\* this.subscriptions.add(disposable): a disposed CompositeDisposable
\* ignores the call and leaves the disposable as it is.
CompositeAdd(s, sub) ==
  IF s.compositeDisposed THEN [s EXCEPT !.subs = @ \cup {sub}]
  ELSE [s EXCEPT !.subs = @ \cup {sub}, !.held = @ \cup {sub}]

\* this.subscriptions.dispose()
CompositeDispose(s) ==
  IF s.compositeDisposed THEN s
  ELSE [s EXCEPT !.subs = @ \ s.held, !.held = {}, !.compositeDisposed = TRUE]

\* handleGutter: removeGutter if there is one, addGutter if linter.gutterEnabled
handleGutter(s) == [s EXCEPT !.gutter = s.config.gutterEnabled]

\* removeGutter
removeGutter(s) == [s EXCEPT !.gutter = FALSE]

\* The 'did-message-add' callback of the constructor: a marker for the
\* message when underlineIssues is on.
Mark(s, m) ==
  IF Hears(s, "messageAdd") /\ s.underlineIssues
  THEN [s EXCEPT !.editorMarkers = @ \cup {m}, !.liveMarkers = @ \cup {m}]
  ELSE s

\* The 'did-message-remove' callback of the constructor: destroy and forget
\* the message's markers.
Unmark(s, m) ==
  IF Hears(s, "messageRemove")
  THEN [s EXCEPT !.liveMarkers = IF m \in s.editorMarkers \cup s.gutterMarkers
                                 THEN @ \ {m} ELSE @,
                 !.editorMarkers = @ \ {m},
                 !.gutterMarkers = @ \ {m}]
  ELSE s

\* The last add or remove notification a subscriber got for m.
Noted(s, m, kind) ==
  IF s.emitterDisposed THEN s ELSE [s EXCEPT !.lastNote[m] = kind]

\* addMessage(message)
addMessageAlways(s, m) ==
  Emit(Emit(Noted(Mark([s EXCEPT !.messages = @ \cup {m}], m), m, "add"),
            "did-message-add", m), "did-message-change", <<m, "add">>)
addMessage(s, m) ==
  IF m \notin s.messages
  THEN Emit(Emit(Noted(Mark([s EXCEPT !.messages = @ \cup {m}], m), m, "add"),
                 "did-message-add", m), "did-message-change", <<m, "add">>)
  ELSE s

\* removeMessage(message)
removeMessage(s, m) ==
  IF m \in s.messages
  THEN Emit(Emit(Noted(Unmark([s EXCEPT !.messages = @ \ {m}], m), m, "remove"),
                 "did-message-remove", m), "did-message-change", <<m, "remove">>)
  ELSE s

\* this.editorMarkers.size and this.gutterMarkers.size: the tables are
\* WeakMaps, which have no size, so both tests of dispose() read undefined.
WeakMapSize(table) == FALSE

\* dispose()
dispose(s) ==
  LET a == IF WeakMapSize(s.editorMarkers)
           THEN [s EXCEPT !.liveMarkers = @ \ s.editorMarkers, !.editorMarkers = {}]
           ELSE s
      b == IF WeakMapSize(a.gutterMarkers)
           THEN [a EXCEPT !.liveMarkers = @ \ a.gutterMarkers, !.gutterMarkers = {}]
           ELSE a
      c == CompositeDispose(removeGutter(b))
  IN [c EXCEPT !.messages = {}, !.emitterDisposed = TRUE]

\* destroy(): the 'did-destroy' subscriber notes whether this.subscriptions
\* was disposed when it was called.
destroy(s) ==
  dispose(Emit(s, "did-destroy",
               IF s.compositeDisposed THEN "disposed" ELSE "live"))

\* The session before a call or event: nothing notified yet in this step.
Before(kind, arg, handled) ==
  [session EXCEPT !.out = <<>>, !.event = SessionEvent(kind, arg, handled)]

\* new EditorLinter(editor): config.observe calls back at once.
Construct ==
  /\ ~session.made
  /\ session' = [NoSession EXCEPT !.made = TRUE, !.deferred = TRUE,
                                  !.subs = Constructed, !.held = Constructed,
                                  !.config = session.config,
                                  !.underlineIssues = session.config.underlineIssues,
                                  !.gutter = session.config.gutterEnabled,
                                  !.event = SessionEvent("new", "", TRUE)]

\* The setImmediate callback:
\* this.subscriptions.add(this.editor.onDidStopChanging(...))
Immediate ==
  /\ session.made
  /\ session.deferred
  /\ session' = [CompositeAdd(Before("immediate", "", TRUE), Deferred)
                   EXCEPT !.deferred = FALSE]

\* destroy() called from outside (package deactivation).
SessionDestroy ==
  /\ session.made
  /\ session.calls < MaxDestroys
  /\ session' = [destroy(Before("destroy", "", TRUE)) EXCEPT !.calls = @ + 1]

\* The editor is destroyed: this.editor.onDidDestroy(() => this.destroy())
EditorDestroyed ==
  /\ session.made
  /\ session.alive
  /\ session' = IF "didDestroy" \in session.subs
                THEN [destroy(Before("editor-destroyed", "", TRUE))
                        EXCEPT !.alive = FALSE, !.calls = @ + 1]
                ELSE [Before("editor-destroyed", "", FALSE) EXCEPT !.alive = FALSE]

\* The editor is saved: this.emitter.emit('should-lint', false)
SessionSaved ==
  /\ session.made
  /\ session.alive
  /\ session' = IF "didSave" \in session.subs
                THEN Emit(Before("save", "", TRUE), "should-lint", FALSE)
                ELSE Before("save", "", FALSE)

\* The editor's content settles: this.emitter.emit('should-lint', true)
SessionStoppedChanging ==
  /\ session.made
  /\ session.alive
  /\ session' = IF Deferred \in session.subs
                THEN Emit(Before("change", "", TRUE), "should-lint", TRUE)
                ELSE Before("change", "", FALSE)

\* The cursor moves, to another row or within its row.
SessionCursorMoved(rowChanged) ==
  /\ session.made
  /\ session.alive
  /\ session' =
       IF "cursor" \in session.subs
       THEN LET s == Before("cursor", "", TRUE)
            IN Emit(IF rowChanged THEN Emit(s, "should-update-line-messages", "")
                    ELSE s, "should-update-bubble", "")
       ELSE Before("cursor", "", FALSE)

\* lint(onChange = false)
SessionLint(onChange) ==
  /\ session.made
  /\ session' = Emit(Before("lint", "", TRUE), "should-lint", onChange)

AddMessage(m) ==
  /\ session.made
  /\ session' = addMessage(Before("addMessage", m, TRUE), m)

RemoveMessage(m) ==
  /\ session.made
  /\ session' = removeMessage(Before("removeMessage", m, TRUE), m)

\* linter.underlineIssues changes: underlineIssues => this.underlineIssues = underlineIssues
SetUnderlineIssues ==
  /\ session' =
       LET s == [Before("underlineIssues", "", "underlineIssues" \in session.subs)
                   EXCEPT !.config.underlineIssues = ~@]
       IN IF "underlineIssues" \in s.subs
          THEN [s EXCEPT !.underlineIssues = s.config.underlineIssues]
          ELSE s

\* linter.gutterEnabled changes: this.gutterEnabled = gutterEnabled; this.handleGutter()
SetGutterEnabled ==
  /\ session' =
       LET s == [Before("gutterEnabled", "", "gutterEnabled" \in session.subs)
                   EXCEPT !.config.gutterEnabled = ~@]
       IN IF "gutterEnabled" \in s.subs THEN handleGutter(s) ELSE s

\* linter.gutterPosition changes: this.handleGutter()
SetGutterPosition ==
  /\ session' =
       LET s == Before("gutterPosition", "", "gutterPosition" \in session.subs)
       IN IF "gutterPosition" \in s.subs THEN handleGutter(s) ELSE s

SessionNext ==
  \/ Construct /\ UNCHANGED <<lintVars, life, panel>>
  \/ Immediate /\ UNCHANGED <<lintVars, life, panel>>
  \/ SessionDestroy /\ UNCHANGED <<lintVars, life, panel>>
  \/ EditorDestroyed /\ UNCHANGED <<lintVars, life, panel>>
  \/ SessionSaved /\ UNCHANGED <<lintVars, life, panel>>
  \/ SessionStoppedChanging /\ UNCHANGED <<lintVars, life, panel>>
  \/ \E rowChanged \in BOOLEAN :
       SessionCursorMoved(rowChanged) /\ UNCHANGED <<lintVars, life, panel>>
  \/ \E onChange \in BOOLEAN : SessionLint(onChange) /\ UNCHANGED <<lintVars, life, panel>>
  \/ \E m \in Msgs : AddMessage(m) /\ UNCHANGED <<lintVars, life, panel>>
  \/ \E m \in Msgs : RemoveMessage(m) /\ UNCHANGED <<lintVars, life, panel>>
  \/ SetUnderlineIssues /\ UNCHANGED <<lintVars, life, panel>>
  \/ SetGutterEnabled /\ UNCHANGED <<lintVars, life, panel>>
  \/ SetGutterPosition /\ UNCHANGED <<lintVars, life, panel>>

SpecSession == Init /\ [][SessionNext]_vars

\* ============================================ both sessions, start to end
\* The sessions of lib/editor-linter.coffee and the session of
\* src/unnamed/part_000 under the events of their editors, the
\* linter.lintOnFly setting and destroy().
LifeSettle(r, l, outcome) ==
  /\ Settle(r, l, outcome)
  /\ life' = [life EXCEPT !.event = DocEvent("none", NoEditor, FALSE)]

LifeSetLintOnFly ==
  /\ SetLintOnFly
  /\ life' = [life EXCEPT !.event = DocEvent("none", NoEditor, FALSE)]
  /\ session' = Before("none", "", FALSE)

LifeNext ==
  \/ \E e \in Editors : Destroy(e) /\ UNCHANGED <<session, panel>>
  \/ \E e \in Editors : EditorSaved(e) /\ UNCHANGED <<session, panel>>
  \/ \E e \in Editors : EditorStoppedChanging(e) /\ UNCHANGED <<session, panel>>
  \/ \E r \in Running, l \in Linters, outcome \in Outcomes :
       LifeSettle(r, l, outcome) /\ UNCHANGED <<session, panel>>
  \/ LifeSetLintOnFly /\ UNCHANGED panel
  \/ Construct /\ UNCHANGED <<lintVars, life, panel>>
  \/ Immediate /\ UNCHANGED <<lintVars, life, panel>>
  \/ SessionDestroy /\ UNCHANGED <<lintVars, life, panel>>
  \/ EditorDestroyed /\ UNCHANGED <<lintVars, life, panel>>
  \/ SessionSaved /\ UNCHANGED <<lintVars, life, panel>>
  \/ SessionStoppedChanging /\ UNCHANGED <<lintVars, life, panel>>

SpecLife == Init /\ [][LifeNext]_vars

\* Whether destroy() has been called on the session.
Destroyed(e) == Len(life.heard[e]) > 0
SessionDestroyed == session.calls > 0

\* C12: over any sequence of destroy() calls on a session the onDidDestroy
\* subscriber is notified once, with the subscriptions not yet disposed:
\* the second and later calls notify nobody.
C12_DestroyOnce ==
  /\ \A e \in Editors :
       /\ Len(life.heard[e]) <= 1
       /\ \A i \in DOMAIN life.heard[e] : life.heard[e][i]
  /\ (session.event.kind \in {"destroy", "editor-destroyed"} /\ session.event.handled)
       => session.out = IF session.calls = 1 THEN <<Note("did-destroy", "live")>>
                        ELSE <<>>

\* C13 as stated: a save always asks for a save-triggered lint, and a
\* settle-after-edit event asks for a change-triggered lint (a lint(true)
\* call, a 'should-lint' true notification) only with linter.lintOnFly on.
C13_ChangeNeedsFlag ==
  /\ (life.event.kind = "save" /\ life.event.handled)
       => (lastOp.op = "lint" /\ ~lastOp.onChange /\ lastOp.editor = life.event.editor)
  /\ (life.event.kind = "change" /\ life.event.handled /\ lastOp.op = "lint")
       => lintOnFly
  /\ (session.event.kind = "save" /\ session.event.handled /\ ~session.emitterDisposed)
       => session.out = <<Note("should-lint", FALSE)>>
  /\ (session.event.kind = "change" /\ session.out # <<>>) => lintOnFly

\* C13: a save always calls lint(false) on the coffee session and notifies
\* 'should-lint' false on the session of part_000, whatever the setting; a
\* settle-after-edit event calls lint(true) on the coffee session exactly
\* when linter.lintOnFly is on at that moment; the session of part_000
\* notifies 'should-lint' true for it whatever the setting.
C13_TriggerWiring ==
  /\ (life.event.kind = "save" /\ life.event.handled)
       => (lastOp.op = "lint" /\ ~lastOp.onChange /\ lastOp.editor = life.event.editor)
  /\ (life.event.kind = "change" /\ life.event.handled)
       => ( (lastOp.op = "lint" /\ lastOp.onChange /\ lastOp.editor = life.event.editor)
            <=> lintOnFly )
  /\ (session.event.kind = "save" /\ session.event.handled /\ ~session.emitterDisposed)
       => session.out = <<Note("should-lint", FALSE)>>
  /\ (session.event.kind = "change" /\ session.event.handled /\ ~session.emitterDisposed)
       => session.out = <<Note("should-lint", TRUE)>>

\* With a change-triggered run still in flight from before the setting was
\* turned off, a settle-after-edit event of the coffee session calls nothing,
\* and the one of the other session still notifies.
C13_Witness ==
  /\ life.event.kind = "change"
  /\ life.event.handled
  /\ ~lintOnFly
  /\ lastOp.op # "lint"
  /\ InFlight(life.event.editor, TRUE) >= 1
  /\ session.event.kind = "change"
  /\ session.out = <<Note("should-lint", TRUE)>>

\* C17: once destroy() has been called a session has no live subscription,
\* and no later event of the editor calls back into it, notifies
\* 'should-lint' or starts a lint run.
C17_NoSubscriptionSurvives ==
  /\ \A e \in Editors : Destroyed(e) => ~life.sub[e]
  /\ (life.event.kind \in {"save", "change"} /\ Destroyed(life.event.editor))
       => (~life.event.handled /\ lastOp.op # "lint")
  /\ SessionDestroyed => session.subs = {}
  /\ (SessionDestroyed /\ session.event.kind \in {"save", "change", "cursor"})
       => (~session.event.handled /\ session.out = <<>>)

\* ====================================================== the bottom panel
\* BottomPanel of lib/ui/bottom-panel.js.  Operators take a panel record and
\* give the record after the call.
Scopes == {"Project", "File", "Line"}
NoScope == ""

\* The arrays a call can get: messages in any order, repeats included.
Batches == UNION {[1..n -> PanelMsgs] : n \in 0..MaxBatch}

\* messageElement.updateVisibility(scope).status
Visible(m, scope) ==
  IF scope = "Line" THEN currentLine(m)
  ELSE IF scope = "File" THEN currentFile(m)
  ELSE TRUE

Status(m, scope) == IF Visible(m, scope) THEN "shown" ELSE "hidden"

\* updateVisibility()
updateVisibility(p) ==
  [p EXCEPT !.visibility = p.configVisibility /\ p.paneVisibility /\ p.visibleMessages > 0]

\* One turn of the loop of removeMessages.
removeOne(p, m) ==
  IF p.messages[m] # "absent"
  THEN [p EXCEPT !.attached[m] = @ - 1,
                 !.messages[m] = "absent",
                 !.visibleMessages = IF p.messages[m] = "shown" THEN @ - 1 ELSE @]
  ELSE p

\* removeMessages(removed)
RECURSIVE removeMessages(_, _)
removeMessages(p, removed) ==
  IF removed = <<>> THEN p
  ELSE removeMessages(removeOne(p, Head(removed)), Tail(removed))

\* One turn of the loop of setMessages: a new element is appended and put
\* in the map under the message, whether or not the map has the message.
addOne(p, m) ==
  [p EXCEPT !.attached[m] = @ + 1,
            !.messages[m] = Status(m, p.scope),
            !.visibleMessages = IF Visible(m, p.scope) THEN @ + 1 ELSE @]

RECURSIVE addMessages(_, _)
addMessages(p, added) ==
  IF added = <<>> THEN p
  ELSE addMessages(addOne(p, Head(added)), Tail(added))

\* if (removed.length) this.removeMessages(removed)
RemovedLater(p, removed) == p
RemovedFirst(p, removed) ==
  IF Len(removed) > 0 THEN removeMessages(p, removed) ELSE p

\* setMessages({added, removed})
setMessages(p, added, removed) ==
  LET mid == RemovedFirst(p, removed)
  IN [updateVisibility(addMessages(mid, added))
        EXCEPT !.last = PanelOp("setMessages", added, removed, NoScope, p, mid)]

\* refresh(scope)
refresh(p, scope) ==
  LET now == IF scope # NoScope THEN scope ELSE p.scope
      q == [p EXCEPT !.scope = now,
                     !.messages = [m \in PanelMsgs |->
                                     IF p.messages[m] = "absent" THEN "absent"
                                     ELSE Status(m, now)],
                     !.visibleMessages =
                        Cardinality({m \in PanelMsgs :
                                       p.messages[m] # "absent" /\ Visible(m, now)})]
  IN [updateVisibility(q)
        EXCEPT !.last = PanelOp("refresh", <<>>, <<>>, scope, EmptyPanel, EmptyPanel)]

\* The elements a call may leave attached stay within the bound.
Fits(p) == \A m \in PanelMsgs : p.attached[m] <= MaxElements

PanelSetMessages(added, removed) ==
  /\ Fits(setMessages(panel, added, removed))
  /\ panel' = setMessages(panel, added, removed)

PanelRemoveMessages(removed) ==
  /\ panel' = [removeMessages(panel, removed)
                 EXCEPT !.last = PanelOp("removeMessages", <<>>, removed, NoScope, EmptyPanel, EmptyPanel)]

PanelRefresh(scope) ==
  /\ panel' = refresh(panel, scope)

\* linter.showErrorPanel changes
SetShowErrorPanel ==
  /\ ~panel.disposed
  /\ panel' = [updateVisibility([panel EXCEPT !.configVisibility = ~@])
                 EXCEPT !.last = PanelOp("showErrorPanel", <<>>, <<>>, NoScope, EmptyPanel, EmptyPanel)]

\* The active pane item changes: paneItem === atom.workspace.getActiveTextEditor()
ActivePaneItemChanged ==
  /\ ~panel.disposed
  /\ panel' = [updateVisibility([panel EXCEPT !.paneVisibility = ~@])
                 EXCEPT !.last = PanelOp("activePaneItem", <<>>, <<>>, NoScope, EmptyPanel, EmptyPanel)]

\* dispose(): the subscriptions are disposed and the map cleared.
PanelDispose ==
  /\ ~panel.disposed
  /\ panel' = [panel EXCEPT !.disposed = TRUE,
                            !.messages = [m \in PanelMsgs |-> "absent"],
                            !.last = PanelOp("dispose", <<>>, <<>>, NoScope, EmptyPanel, EmptyPanel)]

PanelInit ==
  /\ activeEditor = "e1"
  /\ lintOnFly = TRUE
  /\ messagesProject = EmptyMap
  /\ messages = [e \in Editors |-> EmptyMap]
  /\ locked = [e \in Editors |-> [key \in LockKeys |-> FALSE]]
  /\ runs = EmptyBag
  /\ lastOp = EnvOp
  /\ life = NewLife
  /\ session = NoSession
  /\ panel \in {NewPanel(scope, show, pane) : scope \in Scopes, show \in BOOLEAN,
                                             pane \in BOOLEAN}

PanelNext ==
  \/ \E added \in Batches, removed \in Batches :
       PanelSetMessages(added, removed) /\ UNCHANGED <<lintVars, life, session>>
  \/ \E removed \in Batches :
       PanelRemoveMessages(removed) /\ UNCHANGED <<lintVars, life, session>>
  \/ \E scope \in Scopes \cup {NoScope} :
       PanelRefresh(scope) /\ UNCHANGED <<lintVars, life, session>>
  \/ SetShowErrorPanel /\ UNCHANGED <<lintVars, life, session>>
  \/ ActivePaneItemChanged /\ UNCHANGED <<lintVars, life, session>>
  \/ PanelDispose /\ UNCHANGED <<lintVars, life, session>>

SpecPanel == PanelInit /\ [][PanelNext]_vars

\* How often message m occurs in the array.
Occurrences(array, m) == Cardinality({i \in DOMAIN array : array[i] = m})
Members(array) == {array[i] : i \in DOMAIN array}

\* C14: in every setMessages({added, removed}) call, when the first message
\* of added is about to be inserted every message of removed is out of the
\* message map and the element the map held for it is detached, and nothing
\* of added has been inserted yet; so the map never holds a message of
\* removed next to a newly inserted message of added, and after the call it
\* holds the messages of added and no message that was only in removed.
C14_RemovalFirst ==
  panel.last.op = "setMessages" =>
    LET op == panel.last
    IN /\ \A m \in Members(op.removed) :
            /\ op.mid.messages[m] = "absent"
            /\ op.mid.attached[m] =
                 op.before.attached[m] - (IF op.before.messages[m] # "absent" THEN 1 ELSE 0)
       /\ \A m \in PanelMsgs \ Members(op.removed) :
            /\ op.mid.messages[m] = op.before.messages[m]
            /\ op.mid.attached[m] = op.before.attached[m]
       /\ \A m \in PanelMsgs :
            panel.attached[m] = op.mid.attached[m] + Occurrences(op.added, m)
       /\ \A m \in Members(op.added) : panel.messages[m] # "absent"
       /\ \A m \in Members(op.removed) \ Members(op.added) : panel.messages[m] = "absent"

\* A diagnostic moves: its old identity is removed and its new one added in
\* one call, with the old one shown before.
C14_Witness ==
  /\ panel.last.op = "setMessages"
  /\ panel.last.removed = <<"p1">>
  /\ panel.last.added = <<"p2">>
  /\ panel.last.before.messages["p1"] = "shown"
  /\ panel.last.mid.messages["p1"] = "absent"
  /\ panel.messages["p2"] = "shown"

\* C15: visibleMessages is the number of messages in the panel's message map
\* whose element is visible under the current scope, and is never negative.
C15_VisibleCount ==
  ~panel.disposed =>
    /\ panel.visibleMessages =
         Cardinality({m \in PanelMsgs : panel.messages[m] # "absent"
                                        /\ Visible(m, panel.scope)})
    /\ panel.visibleMessages >= 0

\* C18: the marker tables hold markers only of messages in the session's
\* message set, every marker not destroyed is in a table, and once destroy()
\* has been called both tables are empty and no marker is left undestroyed.
C18_MarkerCleanup ==
  /\ session.editorMarkers \cup session.gutterMarkers \subseteq session.messages
  /\ session.liveMarkers \subseteq session.editorMarkers \cup session.gutterMarkers
  /\ SessionDestroyed
       => /\ session.editorMarkers = {}
          /\ session.gutterMarkers = {}
          /\ session.liveMarkers = {}

\* The notifications a subscriber gets for a real addition or removal.
AddNotes(m) == <<Note("did-message-add", m), Note("did-message-change", <<m, "add">>)>>
RemoveNotes(m) == <<Note("did-message-remove", m), Note("did-message-change", <<m, "remove">>)>>

\* C20 as stated: the message set always equals the messages whose last
\* notification was an add.
C20_SetIsLastAdded ==
  session.messages = {m \in Msgs : session.lastNote[m] = "add"}

\* C20: addMessage(m) leaves the set with m and removeMessage(m) without it,
\* and changes nothing else of it; on a session that is not disposed
\* subscribers get the add notifications exactly when m was absent and the
\* remove notifications exactly when m was present, so per message adds and
\* removes alternate starting with an add and the set equals the messages
\* whose last notification was an add.  dispose() empties the set without a
\* notification, and on a disposed session nobody is notified.
C20_NotifyOnTransitions ==
  [][ LET m == session'.event.arg
          live == ~session.emitterDisposed
      IN /\ session'.event.kind = "addMessage"
              => /\ session'.messages = session.messages \cup {m}
                 /\ session'.out = IF live /\ m \notin session.messages
                                   THEN AddNotes(m) ELSE <<>>
                 /\ session'.out # <<>> => session.lastNote[m] \in {"none", "remove"}
         /\ session'.event.kind = "removeMessage"
              => /\ session'.messages = session.messages \ {m}
                 /\ session'.out = IF live /\ m \in session.messages
                                   THEN RemoveNotes(m) ELSE <<>>
                 /\ session'.out # <<>> => session.lastNote[m] = "add"
         /\ ~session'.emitterDisposed
              => session'.messages = {x \in Msgs : session'.lastNote[x] = "add"}
         /\ session'.emitterDisposed
              => /\ session'.lastNote = session.lastNote
                 /\ ( /\ session'.event.kind \in {"destroy", "editor-destroyed"}
                      /\ session'.event.handled )
                      => session'.messages = {}
    ]_vars

\* addMessage of a message the set already has, after the other message
\* was added and removed: nobody is notified.
C20_Witness ==
  /\ session.event.kind = "addMessage"
  /\ session.event.arg \in session.messages
  /\ session.out = <<>>
  /\ ~session.emitterDisposed
  /\ \E m \in Msgs : session.lastNote[m] = "remove"

====
